---- MODULE Spec2Model ----
(***************************************************************************)
(* The link/graph pipeline of the blog: the posts directory, the embedding *)
(* cache (public/embeddings.json) and the three build scripts that read    *)
(* and write them:                                                         *)
(*   scripts/generate-embeddings.ts   (posts -> embedding cache)           *)
(*   scripts/build-graph.ts           (cache -> graph-data.json)           *)
(*   build-links-data (scripts/build-search-index.ts, lines 567-927)       *)
(*                                    (posts + cache -> links-data.json)   *)
(*                                                                         *)
(* Text (slugs, wiki-link targets) is a sequence of one-character strings. *)
(* A similarity is the exact rational-under-a-root  d / sqrt(n)  kept as   *)
(* the record [d, n]; weights and scores are integers in hundredths.       *)
(***************************************************************************)
EXTENDS Integers, Sequences, FiniteSets, TLC

VARIABLES
    posts,      \* the .mdx files of src/content/posts, in readdir order
    embFile,    \* public/embeddings.json
    graphFile,  \* public/graph-data.json
    linksFile,  \* public/links-data.json
    lastRun,    \* the last thing done in the working tree: a script run or an edit
    notionPages,    \* the pages of the Notion database, in the order of the query
    notionCache,    \* .notion-cache.json
    mdFiles         \* the .md files that the Notion sync wrote to src/content/posts

vars == <<posts, embFile, graphFile, linksFile, lastRun, notionPages, notionCache, mdFiles>>

----------------------------------------------------------------------------
(* Bounds of the model *)

MaxPosts == 2       \* files in the posts directory
MaxLinks == 2       \* wiki-link references written in the whole directory
MaxRecords == 7     \* records of an embedding cache given to build-graph
MaxTokens == 6      \* pieces of the body text given to parseWikiLinks
MaxPages == 2       \* pages of the Notion database
MaxEdits == 2       \* edits made to the Notion database between the runs

(* Program constants *)

SIMILARITY_THRESHOLD_NUM == 13      \* 0.65 = 13/20
SIMILARITY_THRESHOLD_DEN == 20
MAX_EDGES_PER_NODE == 5
MAX_AI_SUGGESTIONS == 5

----------------------------------------------------------------------------
(* Generic helpers for the Map / Array values of the scripts *)

MapGet(m, k) == IF k \in DOMAIN m THEN m[k] ELSE 0

MapSet(m, k, v) == [x \in (DOMAIN m) \cup {k} |-> IF x = k THEN v ELSE m[x]]

EmptyMap == [x \in {} |-> 0]

Includes(s, e) == \E i \in 1..Len(s) : s[i] = e

Take(s, n) == IF Len(s) <= n THEN s ELSE SubSeq(s, 1, n)

----------------------------------------------------------------------------
(* Text *)

SlugNames == << <<"a">>, <<"b">>, <<"c">>, <<"d">>, <<"e">>, <<"f">>,
                <<"g">>, <<"h">>, <<"i">>, <<"j">> >>

IsSpace(c) == c = " "

ToLowerChar(c) ==
    CASE c = "A" -> "a"
      [] c = "B" -> "b"
      [] c = "C" -> "c"
      [] c = "X" -> "x"
      [] OTHER -> c

RECURSIVE TrimStart(_)
TrimStart(t) ==
    IF t # <<>> /\ IsSpace(Head(t)) THEN TrimStart(Tail(t)) ELSE t

RECURSIVE TrimEnd(_)
TrimEnd(t) ==
    IF t # <<>> /\ IsSpace(t[Len(t)]) THEN TrimEnd(SubSeq(t, 1, Len(t) - 1)) ELSE t

Trim(t) == TrimEnd(TrimStart(t))

ToLowerCase(t) == [i \in 1..Len(t) |-> ToLowerChar(t[i])]

\* replace(/\s+/g, '-'): every maximal run of white space becomes one hyphen
RECURSIVE HyphenateSpaces(_)
HyphenateSpaces(t) ==
    IF t = <<>> THEN <<>>
    ELSE IF IsSpace(Head(t))
         THEN <<"-">> \o HyphenateSpaces(TrimStart(t))
         ELSE <<Head(t)>> \o HyphenateSpaces(Tail(t))

NormalizeTarget(raw) == HyphenateSpaces(ToLowerCase(Trim(raw)))

\* the first index from i on whose character is in stops, or Len(text) + 1:
\* the end of a greedy [^...]+ run
RECURSIVE RunEnd(_, _, _)
RunEnd(text, i, stops) ==
    IF i > Len(text) \/ text[i] \in stops THEN i ELSE RunEnd(text, i + 1, stops)

StartsWith(text, i, c) == i + 1 <= Len(text) /\ text[i] = c /\ text[i + 1] = c

NoMatch == [found |-> FALSE, target |-> <<>>, end |-> 0]

\* WIKI_LINK_REGEX tried at index i: [[, one or more characters other than
\* ] and |, optionally | and one or more characters other than ], then ]].
\* target is capture group 1, end the index after the match
WikiLinkMatchAt(text, i) ==
    IF ~ StartsWith(text, i, "[") THEN NoMatch
    ELSE LET t == RunEnd(text, i + 2, {"]", "|"})
             l == RunEnd(text, t + 1, {"]"})
         IN  IF t = i + 2 THEN NoMatch
             ELSE IF StartsWith(text, t, "]")
             THEN [found |-> TRUE, target |-> SubSeq(text, i + 2, t - 1), end |-> t + 2]
             ELSE IF t <= Len(text) /\ text[t] = "|" /\ l > t + 1 /\ StartsWith(text, l, "]")
             THEN [found |-> TRUE, target |-> SubSeq(text, i + 2, t - 1), end |-> l + 2]
             ELSE NoMatch

\* WIKI_LINK_REGEX.exec(content) with the given lastIndex: the leftmost match
\* that starts at lastIndex or later
RECURSIVE WikiLinkExec(_, _)
WikiLinkExec(text, lastIndex) ==
    IF lastIndex > Len(text) THEN NoMatch
    ELSE IF WikiLinkMatchAt(text, lastIndex).found THEN WikiLinkMatchAt(text, lastIndex)
    ELSE WikiLinkExec(text, lastIndex + 1)

\* the match[1] values of the while loop of parseWikiLinks, in order
RECURSIVE WikiLinkCapturesFrom(_, _)
WikiLinkCapturesFrom(text, lastIndex) ==
    IF ~ WikiLinkExec(text, lastIndex).found THEN <<>>
    ELSE <<WikiLinkExec(text, lastIndex).target>>
         \o WikiLinkCapturesFrom(text, WikiLinkExec(text, lastIndex).end)

WikiLinkCaptures(text) == WikiLinkCapturesFrom(text, 1)

\* the loop that pushes every target, seen before or not
RECURSIVE parseWikiLinksKeepingAll(_, _)
parseWikiLinksKeepingAll(content, links) ==
    IF content = <<>> THEN links
    ELSE parseWikiLinksKeepingAll(Tail(content),
                                  Append(links, NormalizeTarget(Head(content))))

\* content is the sequence of the [[target]] texts of the body, in order
RECURSIVE parseWikiLinksFrom(_, _)
parseWikiLinksFrom(content, links) ==
    IF content = <<>> THEN links
    ELSE LET linkTarget == NormalizeTarget(Head(content))
         IN  parseWikiLinksFrom(Tail(content),
                 IF Includes(links, linkTarget) THEN links
                 ELSE Append(links, linkTarget))

parseWikiLinks(content) == parseWikiLinksFrom(content, <<>>)

----------------------------------------------------------------------------
(* Similarity engine.  A similarity value is d / sqrt(n) with n > 0. *)

RECURSIVE DotFrom(_, _, _)
DotFrom(a, b, i) ==
    IF i > Len(a) THEN 0 ELSE a[i] * b[i] + DotFrom(a, b, i + 1)

Dot(a, b) == DotFrom(a, b, 1)

NormSq(a) == Dot(a, a)

SimZero == [d |-> 0, n |-> 1]

\* the function without the test of the lengths: the sums run over the
\* indices that both vectors have
cosineSimilarityPrefix(a, b) ==
    LET n == IF Len(a) < Len(b) THEN Len(a) ELSE Len(b)
        x == SubSeq(a, 1, n)
        y == SubSeq(b, 1, n)
    IN  IF NormSq(x) = 0 \/ NormSq(y) = 0 THEN SimZero
        ELSE [d |-> Dot(x, y), n |-> NormSq(x) * NormSq(y)]

\* build-links-data: unequal lengths give 0
cosineSimilarityLenient(a, b) ==
    IF Len(a) # Len(b) THEN SimZero
    ELSE IF NormSq(a) = 0 \/ NormSq(b) = 0 THEN SimZero
    ELSE [d |-> Dot(a, b), n |-> NormSq(a) * NormSq(b)]

\* the strict function without the test of the norms: 0 / 0 for a vector of
\* norm 0, which is NaN (written d = 0, n = 0)
cosineSimilarityStrictUnguarded(a, b) ==
    IF Len(a) # Len(b) THEN [thrown |-> TRUE, sim |-> SimZero]
    ELSE [thrown |-> FALSE, sim |-> [d |-> Dot(a, b), n |-> NormSq(a) * NormSq(b)]]

\* build-graph: unequal lengths throw
cosineSimilarityStrict(a, b) ==
    IF Len(a) # Len(b) THEN [thrown |-> TRUE, sim |-> SimZero]
    ELSE [thrown |-> FALSE,
          sim |-> IF NormSq(a) = 0 \/ NormSq(b) = 0 THEN SimZero
                  ELSE [d |-> Dot(a, b), n |-> NormSq(a) * NormSq(b)]]

\* similarity >= SIMILARITY_THRESHOLD
AtLeastThreshold(s) ==
    /\ s.d > 0
    /\ s.d * s.d * SIMILARITY_THRESHOLD_DEN * SIMILARITY_THRESHOLD_DEN
         >= SIMILARITY_THRESHOLD_NUM * SIMILARITY_THRESHOLD_NUM * s.n

\* s - t > 0, for similarities that passed the threshold (both positive)
SimGreater(s, t) == s.d * s.d * t.n > t.d * t.d * s.n

\* Math.round(similarity * 100), the weight or score in hundredths, for a
\* similarity >= 0: the k with k - 1/2 <= 100 * similarity < k + 1/2
Round100(s) ==
    CHOOSE k \in 0..100 :
        /\ (2 * k - 1 <= 0 \/ (2 * k - 1) * (2 * k - 1) * s.n <= 40000 * s.d * s.d)
        /\ (2 * k + 1) * (2 * k + 1) * s.n > 40000 * s.d * s.d

----------------------------------------------------------------------------
(* build-links-data *)

\* one PostData of readPosts, from one file of the directory
ReadPost(file) ==
    [slug |-> file.slug, title |-> file.title, tags |-> file.tags,
     excerpt |-> file.excerpt, explicitLinks |-> parseWikiLinks(file.content)]

readPosts(dir) == [i \in 1..Len(dir) |-> ReadPost(dir[i])]

\* Array.prototype.sort((a, b) => b.score - a.score): stable, descending
RECURSIVE InsertByScore(_, _)
InsertByScore(sorted, x) ==
    IF sorted = <<>> THEN <<x>>
    ELSE IF Head(sorted).score >= x.score
         THEN <<Head(sorted)>> \o InsertByScore(Tail(sorted), x)
         ELSE <<x>> \o sorted

RECURSIVE SortByScore(_)
SortByScore(s) ==
    IF s = <<>> THEN <<>>
    ELSE InsertByScore(SortByScore(SubSeq(s, 1, Len(s) - 1)), s[Len(s)])

\* the candidate loop of getAISuggestions over the cache records
RECURSIVE SuggestionCandidates(_, _, _, _)
SuggestionCandidates(slug, current, others, explicitLinks) ==
    IF others = <<>> THEN <<>>
    ELSE LET other == Head(others)
             rest == SuggestionCandidates(slug, current, Tail(others), explicitLinks)
             similarity == cosineSimilarityLenient(current.embedding, other.embedding)
         IN  IF other.slug = slug THEN rest
             ELSE IF Includes(explicitLinks, other.slug) THEN rest
             ELSE IF AtLeastThreshold(similarity)
                  THEN <<[slug |-> other.slug, title |-> other.title,
                          score |-> Round100(similarity)]>> \o rest
                  ELSE rest

getAISuggestions(slug, embeddings, explicitLinks) ==
    IF ~ \E i \in 1..Len(embeddings) : embeddings[i].slug = slug THEN <<>>
    ELSE LET first == CHOOSE i \in 1..Len(embeddings) :
                         /\ embeddings[i].slug = slug
                         /\ \A j \in 1..(i - 1) : embeddings[j].slug # slug
             currentPost == embeddings[first]
         IN  Take(SortByScore(SuggestionCandidates(slug, currentPost, embeddings,
                                                   explicitLinks)),
                  MAX_AI_SUGGESTIONS)

\* tagGroups is the Map built while the nodes are mapped
assignGroupMap(tags, tagGroups) ==
    IF Len(tags) = 0 THEN tagGroups
    ELSE IF tags[1] \in DOMAIN tagGroups THEN tagGroups
    ELSE MapSet(tagGroups, tags[1], Cardinality(DOMAIN tagGroups))

assignGroup(tags, tagGroups) ==
    IF Len(tags) = 0 THEN 0 ELSE MapGet(assignGroupMap(tags, tagGroups), tags[1])

\* the state threaded through the two edge loops of main
EdgeState(edges, connectionCount, aiSuggestionsMap) ==
    [edges |-> edges, connectionCount |-> connectionCount,
     aiSuggestionsMap |-> aiSuggestionsMap]

\* edges.push(...) followed by the two connectionCount.set(...) statements
PushEdge(st, source, target, weight, type) ==
    LET c1 == MapSet(st.connectionCount, source, MapGet(st.connectionCount, source) + 1)
        c2 == MapSet(c1, target, MapGet(c1, target) + 1)
    IN  EdgeState(Append(st.edges,
                         [source |-> source, target |-> target,
                          weight |-> weight, type |-> type]),
                  c2, st.aiSuggestionsMap)

\* the inner loop without the postMap.has(targetSlug) test
RECURSIVE ExplicitLinksUnguarded(_, _, _, _)
ExplicitLinksUnguarded(st, post, targets, postSlugs) ==
    IF targets = <<>> THEN st
    ELSE ExplicitLinksUnguarded(
             PushEdge(st, post.slug, Head(targets), 100, "explicit"),
             post, Tail(targets), postSlugs)

\* inner loop over post.explicitLinks
RECURSIVE ExplicitLinksOfPost(_, _, _, _)
ExplicitLinksOfPost(st, post, targets, postSlugs) ==
    IF targets = <<>> THEN st
    ELSE ExplicitLinksOfPost(
             IF Head(targets) \in postSlugs
             THEN PushEdge(st, post.slug, Head(targets), 100, "explicit")
             ELSE st,
             post, Tail(targets), postSlugs)

\* "Process explicit links": outer loop over posts
RECURSIVE ProcessExplicitLinks(_, _, _)
ProcessExplicitLinks(st, ps, postSlugs) ==
    IF ps = <<>> THEN st
    ELSE ProcessExplicitLinks(
             ExplicitLinksOfPost(st, Head(ps), Head(ps).explicitLinks, postSlugs),
             Tail(ps), postSlugs)

\* a duplicate check that looks in one direction only
edgeExistsForward(edges, a, b) ==
    \E i \in 1..Len(edges) : edges[i].source = a /\ edges[i].target = b

edgeExists(edges, a, b) ==
    \E i \in 1..Len(edges) :
        \/ (edges[i].source = a /\ edges[i].target = b)
        \/ (edges[i].source = b /\ edges[i].target = a)

\* the inner loop giving every 'ai' edge the weight of an explicit edge
RECURSIVE SuggestionEdgesFullWeight(_, _, _)
SuggestionEdgesFullWeight(st, post, suggestions) ==
    IF suggestions = <<>> THEN st
    ELSE SuggestionEdgesFullWeight(
             IF ~ edgeExists(st.edges, post.slug, Head(suggestions).slug)
             THEN PushEdge(st, post.slug, Head(suggestions).slug, 100, "ai")
             ELSE st,
             post, Tail(suggestions))

\* inner loop over the suggestions of one post
RECURSIVE SuggestionEdgesOfPost(_, _, _)
SuggestionEdgesOfPost(st, post, suggestions) ==
    IF suggestions = <<>> THEN st
    ELSE SuggestionEdgesOfPost(
             IF ~ edgeExists(st.edges, post.slug, Head(suggestions).slug)
             THEN PushEdge(st, post.slug, Head(suggestions).slug,
                           Head(suggestions).score, "ai")
             ELSE st,
             post, Tail(suggestions))

\* "Process AI suggestions": outer loop over posts
RECURSIVE ProcessAISuggestions(_, _, _)
ProcessAISuggestions(st, ps, embeddings) ==
    IF ps = <<>> THEN st
    ELSE LET post == Head(ps)
             suggestions == getAISuggestions(post.slug, embeddings, post.explicitLinks)
             noted == EdgeState(st.edges, st.connectionCount,
                                MapSet(st.aiSuggestionsMap, post.slug, suggestions))
         IN  ProcessAISuggestions(SuggestionEdgesOfPost(noted, post, suggestions),
                                  Tail(ps), embeddings)

\* one loop over the posts that adds the explicit edges of a post and then
\* its AI edges, before it goes on to the next post
RECURSIVE ProcessEdgesPostByPost(_, _, _, _)
ProcessEdgesPostByPost(st, ps, postSlugs, embeddings) ==
    IF ps = <<>> THEN st
    ELSE LET post == Head(ps)
             linked == ExplicitLinksOfPost(st, post, post.explicitLinks, postSlugs)
             suggestions == getAISuggestions(post.slug, embeddings, post.explicitLinks)
             noted == EdgeState(linked.edges, linked.connectionCount,
                                MapSet(linked.aiSuggestionsMap, post.slug, suggestions))
         IN  ProcessEdgesPostByPost(SuggestionEdgesOfPost(noted, post, suggestions),
                                    Tail(ps), postSlugs, embeddings)

\* the two loops of main, one after the other: "Process explicit links" over
\* all posts, then "Process AI suggestions" over all posts
ProcessEdges(st, ps, postSlugs, embeddings) ==
    ProcessAISuggestions(ProcessExplicitLinks(st, ps, postSlugs), ps, embeddings)

\* entries that start with an empty aiSuggested list
RECURSIVE InitBacklinksWithoutSuggestions(_, _, _)
InitBacklinksWithoutSuggestions(backlinks, ps, aiSuggestionsMap) ==
    IF ps = <<>> THEN backlinks
    ELSE InitBacklinksWithoutSuggestions(
             MapSet(backlinks, Head(ps).slug, [explicit |-> <<>>, aiSuggested |-> <<>>]),
             Tail(ps), aiSuggestionsMap)

\* "Build backlinks": one entry per post, in read order
RECURSIVE InitBacklinks(_, _, _)
InitBacklinks(backlinks, ps, aiSuggestionsMap) ==
    IF ps = <<>> THEN backlinks
    ELSE InitBacklinks(
             MapSet(backlinks, Head(ps).slug,
                    [explicit |-> <<>>,
                     aiSuggested |-> IF Head(ps).slug \in DOMAIN aiSuggestionsMap
                                     THEN aiSuggestionsMap[Head(ps).slug] ELSE <<>>]),
             Tail(ps), aiSuggestionsMap)

\* the inner loop putting each new entry at the front of the list
RECURSIVE BacklinksOfPostPrepending(_, _, _)
BacklinksOfPostPrepending(backlinks, post, targets) ==
    IF targets = <<>> THEN backlinks
    ELSE BacklinksOfPostPrepending(
             IF Head(targets) \in DOMAIN backlinks
             THEN [backlinks EXCEPT ![Head(targets)].explicit =
                       <<[slug |-> post.slug, title |-> post.title]>> \o @]
             ELSE backlinks,
             post, Tail(targets))

\* inner loop of "Populate explicit backlinks"
RECURSIVE BacklinksOfPost(_, _, _)
BacklinksOfPost(backlinks, post, targets) ==
    IF targets = <<>> THEN backlinks
    ELSE BacklinksOfPost(
             IF Head(targets) \in DOMAIN backlinks
             THEN [backlinks EXCEPT ![Head(targets)].explicit =
                       Append(@, [slug |-> post.slug, title |-> post.title])]
             ELSE backlinks,
             post, Tail(targets))

RECURSIVE PopulateBacklinks(_, _)
PopulateBacklinks(backlinks, ps) ==
    IF ps = <<>> THEN backlinks
    ELSE PopulateBacklinks(BacklinksOfPost(backlinks, Head(ps), Head(ps).explicitLinks),
                           Tail(ps))

BuildBacklinks(ps, aiSuggestionsMap) ==
    PopulateBacklinks(InitBacklinks(EmptyMap, ps, aiSuggestionsMap), ps)

\* the tagGroups Map after the first k posts were mapped to nodes
RECURSIVE TagGroupsAfter(_, _)
TagGroupsAfter(ps, k) ==
    IF k = 0 THEN EmptyMap
    ELSE assignGroupMap(ps[k].tags, TagGroupsAfter(ps, k - 1))

\* nodes made only for the slugs that got an edge
BuildNodesConnected(ps, connectionCount) ==
    LET connected == SelectSeq(ps, LAMBDA q : q.slug \in DOMAIN connectionCount)
    IN  [i \in 1..Len(connected) |->
            [id |-> connected[i].slug, title |-> connected[i].title,
             tags |-> connected[i].tags,
             group |-> assignGroup(connected[i].tags, TagGroupsAfter(connected, i - 1)),
             connections |-> MapGet(connectionCount, connected[i].slug)]]

BuildNodes(ps, connectionCount) ==
    [i \in 1..Len(ps) |->
        [id |-> ps[i].slug, title |-> ps[i].title, tags |-> ps[i].tags,
         group |-> assignGroup(ps[i].tags, TagGroupsAfter(ps, i - 1)),
         connections |-> MapGet(connectionCount, ps[i].slug)]]

BuildPostMeta(ps) ==
    [t \in {ps[i].slug : i \in 1..Len(ps)} |->
        LET p == ps[CHOOSE i \in 1..Len(ps) :
                        ps[i].slug = t /\ \A j \in (i + 1)..Len(ps) : ps[j].slug # t]
        IN  [title |-> p.title, tags |-> p.tags, excerpt |-> p.excerpt]]

\* the LinksData that main writes for a directory and a cache
LinksData(dir, cache) ==
    LET ps == readPosts(dir)
        embeddings == IF cache.state = "ok" THEN cache.posts ELSE <<>>
        postSlugs == {ps[i].slug : i \in 1..Len(ps)}
        allDone == ProcessEdges(EdgeState(<<>>, EmptyMap, EmptyMap), ps, postSlugs,
                                embeddings)
    IN  [state |-> "ok",
         nodes |-> BuildNodes(ps, allDone.connectionCount),
         edges |-> allDone.edges,
         backlinks |-> BuildBacklinks(ps, allDone.aiSuggestionsMap),
         postMeta |-> BuildPostMeta(ps)]

Ran(script, outcome, calls) ==
    [script |-> script, outcome |-> outcome, calls |-> calls]

\* a whole run of main. JSON.parse of an embeddings file that does not parse
\* throws inside main before links-data.json is written; main().catch logs it
BuildLinks ==
    /\ linksFile' = IF embFile.state = "corrupt" THEN linksFile
                    ELSE LinksData(posts, embFile)
    /\ lastRun' = Ran("links", IF embFile.state = "corrupt" THEN "threw" ELSE "completed",
                      <<>>)
    /\ UNCHANGED <<posts, embFile, graphFile, notionPages, notionCache, mdFiles>>

----------------------------------------------------------------------------
(* JSON.stringify and JSON.parse of the outputs.  The text of an object is
   the sequence of its members <<key, text of the value>>, the text of an
   array the sequence of the texts of its elements. *)

\* JSON.stringify of an object with the given keys, in their order: a member
\* whose value is undefined is left out
StringifyObject(obj, keys, undefinedKeys) ==
    LET written == SelectSeq(keys, LAMBDA k : k \notin undefinedKeys)
    IN  [i \in 1..Len(written) |-> <<written[i], obj[written[i]]>>]

\* JSON.parse of the text of an object
ParseObject(members) ==
    [k \in {members[i][1] : i \in 1..Len(members)} |->
        members[CHOOSE i \in 1..Len(members) : members[i][1] = k][2]]

\* the value of excerpt for a front matter without excerpt: undefined
NoExcerpt == <<>>

NodeKeys == <<"id", "title", "tags", "group", "connections">>

LinkEntryKeys(entry) ==
    IF "score" \in DOMAIN entry THEN <<"slug", "title", "score">> ELSE <<"slug", "title">>

StringifyEntries(entries) ==
    [i \in 1..Len(entries) |-> StringifyObject(entries[i], LinkEntryKeys(entries[i]), {})]

ParseEntries(texts) == [i \in 1..Len(texts) |-> ParseObject(texts[i])]

\* the members of a Record<string, ...> in insertion order, which is the
\* read order of the posts
SlugKeys(ps, obj) ==
    LET slugs == [i \in 1..Len(ps) |-> ps[i].id]
    IN  SelectSeq(slugs, LAMBDA k : k \in DOMAIN obj)

\* JSON.stringify(linksData, null, 2)
StringifyLinksData(data) ==
    StringifyObject(
        [nodes |-> [i \in 1..Len(data.nodes) |->
                       StringifyObject(data.nodes[i], NodeKeys, {})],
         edges |-> [i \in 1..Len(data.edges) |->
                       StringifyObject(data.edges[i],
                                       <<"source", "target", "weight", "type">>, {})],
         backlinks |->
             StringifyObject(
                 [k \in DOMAIN data.backlinks |->
                     StringifyObject(
                         [explicit |-> StringifyEntries(data.backlinks[k].explicit),
                          aiSuggested |-> StringifyEntries(data.backlinks[k].aiSuggested)],
                         <<"explicit", "aiSuggested">>, {})],
                 SlugKeys(data.nodes, data.backlinks), {}),
         postMeta |->
             StringifyObject(
                 [k \in DOMAIN data.postMeta |->
                     StringifyObject(data.postMeta[k], <<"title", "tags", "excerpt">>,
                                     IF data.postMeta[k].excerpt = NoExcerpt
                                     THEN {"excerpt"} ELSE {})],
                 SlugKeys(data.nodes, data.postMeta), {})],
        <<"nodes", "edges", "backlinks", "postMeta">>, {})

\* JSON.parse of the text of links-data.json
ParseLinksData(text) ==
    LET top == ParseObject(text)
        backlinks == ParseObject(top.backlinks)
        postMeta == ParseObject(top.postMeta)
    IN  [nodes |-> [i \in 1..Len(top.nodes) |-> ParseObject(top.nodes[i])],
         edges |-> [i \in 1..Len(top.edges) |-> ParseObject(top.edges[i])],
         backlinks |->
             [k \in DOMAIN backlinks |->
                 [explicit |-> ParseEntries(ParseObject(backlinks[k]).explicit),
                  aiSuggested |-> ParseEntries(ParseObject(backlinks[k]).aiSuggested)]],
         postMeta |-> [k \in DOMAIN postMeta |-> ParseObject(postMeta[k])]]

\* JSON.stringify(graphData, null, 2)
StringifyGraphData(data) ==
    StringifyObject(
        [nodes |-> [i \in 1..Len(data.nodes) |->
                       StringifyObject(data.nodes[i], NodeKeys, {})],
         edges |-> [i \in 1..Len(data.edges) |->
                       StringifyObject(data.edges[i], <<"source", "target", "weight">>, {})]],
        <<"nodes", "edges">>, {})

\* JSON.parse of the text of graph-data.json
ParseGraphData(text) ==
    LET top == ParseObject(text)
    IN  [nodes |-> [i \in 1..Len(top.nodes) |-> ParseObject(top.nodes[i])],
         edges |-> [i \in 1..Len(top.edges) |-> ParseObject(top.edges[i])]]

----------------------------------------------------------------------------
(* build-graph *)

\* the j loop of "Calculate all pairwise similarities", for one i
RECURSIVE SimilaritiesOfRow(_, _, _)
SimilaritiesOfRow(recs, i, j) ==
    IF j > Len(recs) THEN <<>>
    ELSE LET r == cosineSimilarityStrict(recs[i].embedding, recs[j].embedding)
         IN  (IF AtLeastThreshold(r.sim)
              THEN <<[i |-> i, j |-> j, similarity |-> r.sim]>>
              ELSE <<>>) \o SimilaritiesOfRow(recs, i, j + 1)

RECURSIVE SimilaritiesFrom(_, _)
SimilaritiesFrom(recs, i) ==
    IF i > Len(recs) THEN <<>>
    ELSE SimilaritiesOfRow(recs, i, i + 1) \o SimilaritiesFrom(recs, i + 1)

\* some comparison of the pairwise loop throws
SimilarityThrows(recs) ==
    \E i \in 1..Len(recs) : \E j \in (i + 1)..Len(recs) :
        cosineSimilarityStrict(recs[i].embedding, recs[j].embedding).thrown

\* a sort that puts a pair before the pairs of equal similarity already placed
RECURSIVE InsertBySimilarityUnstable(_, _)
InsertBySimilarityUnstable(sorted, x) ==
    IF sorted = <<>> THEN <<x>>
    ELSE IF ~ SimGreater(Head(sorted).similarity, x.similarity)
         THEN <<x>> \o sorted
         ELSE <<Head(sorted)>> \o InsertBySimilarityUnstable(Tail(sorted), x)

\* similarities.sort((a, b) => b.similarity - a.similarity): stable, descending
RECURSIVE InsertBySimilarity(_, _)
InsertBySimilarity(sorted, x) ==
    IF sorted = <<>> THEN <<x>>
    ELSE IF SimGreater(x.similarity, Head(sorted).similarity)
         THEN <<x>> \o sorted
         ELSE <<Head(sorted)>> \o InsertBySimilarity(Tail(sorted), x)

RECURSIVE SortBySimilarity(_)
SortBySimilarity(s) ==
    IF s = <<>> THEN <<>>
    ELSE InsertBySimilarity(SortBySimilarity(SubSeq(s, 1, Len(s) - 1)), s[Len(s)])

\* the iteration with the cap tested on the lower-index endpoint only
AssignEdgeCapOnSource(st, recs, pair) ==
    LET countI == MapGet(st.connectionCount, pair.i)
        countJ == MapGet(st.connectionCount, pair.j)
    IN  IF countI < MAX_EDGES_PER_NODE
        THEN [edges |-> Append(st.edges,
                               [source |-> recs[pair.i].slug,
                                target |-> recs[pair.j].slug,
                                weight |-> Round100(pair.similarity)]),
              connectionCount |->
                  MapSet(MapSet(st.connectionCount, pair.i, countI + 1),
                         pair.j, countJ + 1)]
        ELSE st

\* one iteration of "Build edges with connection limit"
AssignEdge(st, recs, pair) ==
    LET countI == MapGet(st.connectionCount, pair.i)
        countJ == MapGet(st.connectionCount, pair.j)
    IN  IF countI < MAX_EDGES_PER_NODE /\ countJ < MAX_EDGES_PER_NODE
        THEN [edges |-> Append(st.edges,
                               [source |-> recs[pair.i].slug,
                                target |-> recs[pair.j].slug,
                                weight |-> Round100(pair.similarity)]),
              connectionCount |->
                  MapSet(MapSet(st.connectionCount, pair.i, countI + 1),
                         pair.j, countJ + 1)]
        ELSE st

\* a loop that ends at the first pair the limit refuses
RECURSIVE GreedyAssignUntilRefused(_, _, _)
GreedyAssignUntilRefused(st, recs, pairs) ==
    IF pairs = <<>> THEN st
    ELSE LET next == AssignEdge(st, recs, Head(pairs))
         IN  IF next = st THEN st
             ELSE GreedyAssignUntilRefused(next, recs, Tail(pairs))

\* the loop "Build edges with connection limit" over the sorted pairs
RECURSIVE GreedyAssign(_, _, _)
GreedyAssign(st, recs, pairs) ==
    IF pairs = <<>> THEN st
    ELSE GreedyAssign(AssignEdge(st, recs, Head(pairs)), recs, Tail(pairs))

GraphNodes(recs, connectionCount) ==
    [index \in 1..Len(recs) |->
        [id |-> recs[index].slug, title |-> recs[index].title,
         tags |-> recs[index].tags,
         group |-> assignGroup(recs[index].tags, TagGroupsAfter(recs, index - 1)),
         connections |-> MapGet(connectionCount, index)]]

EmptyGraph == [state |-> "ok", nodes |-> <<>>, edges |-> <<>>]

\* the GraphData that main writes for the records of a readable cache
GraphData(recs) ==
    LET done == GreedyAssign([edges |-> <<>>, connectionCount |-> EmptyMap], recs,
                             SortBySimilarity(SimilaritiesFrom(recs, 1)))
    IN  [state |-> "ok",
         nodes |-> GraphNodes(recs, done.connectionCount),
         edges |-> done.edges]

\* JSON.parse of an embeddings file that does not parse throws
ParseThrows(cache) == cache.state = "corrupt"

BuildGraph ==
    /\ graphFile' =
          IF embFile.state = "absent" THEN EmptyGraph
          ELSE IF ParseThrows(embFile) THEN graphFile
          ELSE IF embFile.posts = <<>> THEN EmptyGraph
          ELSE IF SimilarityThrows(embFile.posts) THEN graphFile
          ELSE GraphData(embFile.posts)
    /\ lastRun' =
          Ran("graph",
              IF ParseThrows(embFile)
                 \/ (embFile.state = "ok" /\ SimilarityThrows(embFile.posts))
              THEN "threw" ELSE "completed",
              <<>>)
    /\ UNCHANGED <<posts, embFile, linksFile, notionPages, notionCache, mdFiles>>

----------------------------------------------------------------------------
(* Inputs: the files the scripts can find *)

Universe == {SlugNames[i] : i \in 1..MaxPosts}

\* what an author writes between [[ and ]]: a slug, a slug in another
\* spelling, or the name of no post
LinkTexts == Universe \cup {<<" ", "A">>, <<"x">>}

Vectors == {<<1, 0>>, <<1, 1>>, <<0, 1>>}

NoFile == [state |-> "absent", posts |-> <<>>]

\* an embeddings file whose bytes are not a JSON document
CorruptFile == [state |-> "corrupt", posts |-> <<>>]

NoOutput == [state |-> "absent"]

NoRun == [script |-> "none", outcome |-> "none", calls |-> <<>>]

\* no Notion database is configured and the sync never ran
NoNotion ==
    /\ notionPages = <<>>
    /\ notionCache = [state |-> "absent", entries |-> EmptyMap]
    /\ mdFiles = EmptyMap

PostFile(slug, content) ==
    [slug |-> slug, title |-> <<"T">> \o slug, tags |-> <<>>, excerpt |-> <<>>,
     content |-> content]

\* the references of the whole directory, as (file, text) pairs in writing order
RECURSIVE SeqsUpTo(_, _)
SeqsUpTo(S, n) ==
    IF n = 0 THEN {<<>>}
    ELSE LET shorter == SeqsUpTo(S, n - 1)
         IN  shorter \cup {Append(q, x) : q \in {r \in shorter : Len(r) = n - 1}, x \in S}

RECURSIVE ContentOf(_, _)
ContentOf(refs, slug) ==
    IF refs = <<>> THEN <<>>
    ELSE (IF Head(refs)[1] = slug THEN <<Head(refs)[2]>> ELSE <<>>)
         \o ContentOf(Tail(refs), slug)

\* the directory listing: files in name order
RECURSIVE Listing(_, _, _)
Listing(present, refs, i) ==
    IF i > Len(SlugNames) THEN <<>>
    ELSE (IF SlugNames[i] \in present
          THEN <<PostFile(SlugNames[i], ContentOf(refs, SlugNames[i]))>>
          ELSE <<>>) \o Listing(present, refs, i + 1)

RECURSIVE CacheRecords(_, _)
CacheRecords(emb, i) ==
    IF i > Len(SlugNames) THEN <<>>
    ELSE (IF SlugNames[i] \in DOMAIN emb /\ emb[SlugNames[i]] # <<>>
          THEN <<[slug |-> SlugNames[i], title |-> <<"T">> \o SlugNames[i],
                  tags |-> <<>>, embedding |-> emb[SlugNames[i]]]>>
          ELSE <<>>) \o CacheRecords(emb, i + 1)

InitLinks ==
    /\ \E present \in SUBSET Universe :
         \E refs \in SeqsUpTo(present \X LinkTexts, MaxLinks) :
            posts = Listing(present, refs, 1)
    /\ \E emb \in [Universe -> Vectors \cup {<<>>}] :
         embFile \in {[state |-> "ok", posts |-> CacheRecords(emb, 1)]}
                     \cup (IF \A s \in Universe : emb[s] = <<>>
                           THEN {NoFile, CorruptFile} ELSE {})
    /\ graphFile = NoOutput
    /\ linksFile = NoOutput
    /\ lastRun = NoRun
    /\ NoNotion

SpecLinks == InitLinks /\ [][BuildLinks]_vars

\* a directory of one more post, with at most one reference, and a cache with
\* embeddings of two lengths; <<7, 1>> and <<8, 1>> have the similarities
\* 0.98995 and 0.99228 with <<1, 0>>, which both round to 0.99
WideSlugs == {SlugNames[i] : i \in 1..(MaxPosts + 1)}

WideVectors == {<<1, 0>>, <<7, 1>>, <<8, 1>>, <<1>>}

InitLinksWide ==
    /\ \E present \in SUBSET WideSlugs :
         \E refs \in SeqsUpTo(present \X WideSlugs, 1) :
            posts = Listing(present, refs, 1)
    /\ \E emb \in [WideSlugs -> WideVectors \cup {<<>>}] :
         embFile = [state |-> "ok", posts |-> CacheRecords(emb, 1)]
    /\ graphFile = NoOutput
    /\ linksFile = NoOutput
    /\ lastRun = NoRun
    /\ NoNotion

SpecLinksWide == InitLinksWide /\ [][BuildLinks]_vars

\* a directory whose file names are not all lower-case words joined by
\* hyphens, in the order of the listing; the slug of a file is its name
\* without ".mdx"
FileNames == << <<"A">>, <<"a">>, <<"a", " ", "b">>, <<"a", "-", "b">>, <<"x">> >>

RECURSIVE NamedListing(_, _, _)
NamedListing(present, refs, i) ==
    IF i > Len(FileNames) THEN <<>>
    ELSE (IF FileNames[i] \in present
          THEN <<PostFile(FileNames[i], ContentOf(refs, FileNames[i]))>>
          ELSE <<>>) \o NamedListing(present, refs, i + 1)

\* at most one reference, whose text is the slug of a file of the directory
InitNames ==
    /\ \E present \in SUBSET {FileNames[i] : i \in 1..Len(FileNames)} :
         \E refs \in SeqsUpTo(present \X present, 1) :
            posts = NamedListing(present, refs, 1)
    /\ embFile = NoFile
    /\ graphFile = NoOutput
    /\ linksFile = NoOutput
    /\ lastRun = NoRun
    /\ NoNotion

SpecNames == InitNames /\ [][BuildLinks]_vars

\* the tags lists of front matter: none, one tag, two tags
TagLists == {<<>>, <<<<"t">>>>, <<<<"u">>>>, <<<<"u">>, <<"t">>>>}

\* the directory listing of posts with tags and no references
RECURSIVE TaggedListing(_, _)
TaggedListing(tagsOf, i) ==
    IF i > Len(SlugNames) THEN <<>>
    ELSE (IF SlugNames[i] \in DOMAIN tagsOf
          THEN <<[PostFile(SlugNames[i], <<>>) EXCEPT !.tags = tagsOf[SlugNames[i]]]>>
          ELSE <<>>) \o TaggedListing(tagsOf, i + 1)

\* the cache a generate-embeddings run leaves for such a directory
TaggedRecords(dir) ==
    [i \in 1..Len(dir) |->
        [slug |-> dir[i].slug, title |-> dir[i].title, tags |-> dir[i].tags,
         embedding |-> <<3, 4>>]]

InitTags ==
    /\ \E present \in SUBSET WideSlugs :
         \E tagsOf \in [present -> TagLists] :
            /\ posts = TaggedListing(tagsOf, 1)
            /\ embFile \in {NoFile,
                            [state |-> "ok",
                             posts |-> TaggedRecords(TaggedListing(tagsOf, 1))]}
    /\ graphFile = NoOutput
    /\ linksFile = NoOutput
    /\ lastRun = NoRun
    /\ NoNotion

NextTags == BuildLinks \/ BuildGraph

SpecTags == InitTags /\ [][NextTags]_vars

\* body texts: up to MaxTokens pieces, each a bracket pair, a bar, a
\* letter or a space
BodyTokens == {<<"[", "[">>, <<"]", "]">>, <<"|">>, <<"a">>, <<"B">>, <<" ">>}

RECURSIVE BodyTexts(_)
BodyTexts(n) ==
    IF n = 0 THEN {<<>>}
    ELSE BodyTexts(n - 1) \cup {t \o k : t \in BodyTexts(n - 1), k \in BodyTokens}

\* a post file with its body text; content holds the matches of
\* WIKI_LINK_REGEX in the body
BodyFile(slug, body) ==
    [slug |-> slug, title |-> <<"T">> \o slug, tags |-> <<>>, excerpt |-> <<>>,
     content |-> WikiLinkCaptures(body), body |-> body]

InitParse ==
    /\ \E body \in BodyTexts(MaxTokens) : posts = <<BodyFile(SlugNames[1], body)>>
    /\ embFile = NoFile
    /\ graphFile = NoOutput
    /\ linksFile = NoOutput
    /\ lastRun = NoRun
    /\ NoNotion

\* readPosts is applied to the directory; the run record keeps the
\* explicitLinks of the post
ReadPosts ==
    /\ lastRun' = [script |-> "readPosts", outcome |-> "completed", calls |-> <<>>,
                   links |-> readPosts(posts)[1].explicitLinks]
    /\ UNCHANGED <<posts, embFile, graphFile, linksFile, notionPages, notionCache, mdFiles>>

SpecParse == InitParse /\ [][ReadPosts]_vars

\* embeddings of norm 0: all zeros, or empty
ZeroVectors == {<<3, 4>>, <<4, 3>>, <<0, 0>>, <<>>}

\* posts without references, each with a cache record
InitZero ==
    /\ \E n \in 0..(MaxPosts + 1) :
         \E emb \in [{SlugNames[i] : i \in 1..n} -> ZeroVectors] :
            /\ posts = Listing({SlugNames[i] : i \in 1..n}, <<>>, 1)
            /\ embFile = [state |-> "ok",
                          posts |-> [i \in 1..n |->
                                        [slug |-> SlugNames[i],
                                         title |-> <<"T">> \o SlugNames[i],
                                         tags |-> <<>>,
                                         embedding |-> emb[SlugNames[i]]]]]
    /\ graphFile = NoOutput
    /\ linksFile = NoOutput
    /\ lastRun = NoRun
    /\ NoNotion

\* both cosineSimilarity functions are applied to the embeddings of two
\* cache records; the run record keeps the arguments and what came back
Compare(i, j) ==
    LET a == embFile.posts[i].embedding
        b == embFile.posts[j].embedding
    IN  /\ lastRun' = [script |-> "cosineSimilarity",
                       outcome |-> IF cosineSimilarityStrict(a, b).thrown
                                   THEN "threw" ELSE "completed",
                       calls |-> <<>>, a |-> a, b |-> b,
                       lenient |-> cosineSimilarityLenient(a, b),
                       strict |-> cosineSimilarityStrict(a, b).sim]
        /\ UNCHANGED <<posts, embFile, graphFile, linksFile, notionPages, notionCache, mdFiles>>

NextZero ==
    \/ BuildLinks
    \/ BuildGraph
    \/ \E i \in 1..Len(embFile.posts) : \E j \in 1..Len(embFile.posts) : Compare(i, j)

SpecZero == InitZero /\ [][NextZero]_vars

\* the caches build-graph is run on: records of equal-length embeddings.
\* The vectors have the same integer norm, so the number arithmetic of
\* cosineSimilarity is exact on them: similarities 1, 0.96, 0.8 and 0.6
GraphVectors == {<<3, 4>>, <<4, 3>>, <<5, 0>>}

InitGraph ==
    /\ posts = <<>>
    /\ \E n \in 0..MaxRecords :
         \E emb \in [{SlugNames[i] : i \in 1..n} -> GraphVectors] :
            embFile \in {[state |-> "ok", posts |-> CacheRecords(emb, 1)]}
                        \cup (IF n = 0 THEN {NoFile} ELSE {})
    /\ graphFile = NoOutput
    /\ linksFile = NoOutput
    /\ lastRun = NoRun
    /\ NoNotion

SpecGraph == InitGraph /\ [][BuildGraph]_vars

\* caches whose records were embedded by different models: the embeddings
\* do not all have the same length
MixedVectors == GraphVectors \cup {<<5>>}

InitGraphMixed ==
    /\ posts = <<>>
    /\ \E n \in 0..(MaxPosts + 1) :
         \E emb \in [{SlugNames[i] : i \in 1..n} -> MixedVectors] :
            embFile \in {[state |-> "ok", posts |-> CacheRecords(emb, 1)]}
                        \cup (IF n = 0 THEN {NoFile} ELSE {})
    /\ graphFile = NoOutput
    /\ linksFile = NoOutput
    /\ lastRun = NoRun
    /\ NoNotion

SpecGraphMixed == InitGraphMixed /\ [][BuildGraph]_vars

----------------------------------------------------------------------------
(* Notion sync.  A page is [id, lastEditedTime, slug, published]; the content
   of a written file is the page and the edit time it was made from. *)

SyncSlugs == {<<"a">>, <<"b">>}

\* the answer of notion.dataSources.query with the filter on the checkbox
QueryPages(database) == SelectSeq(database, LAMBDA page : page.published)

\* loadCache: {} for a missing file and for a file that does not parse
loadNotionCache(file) == IF file.state = "ok" THEN file.entries ELSE EmptyMap

\* the test "cache check (skip posts that did not change)"
IsSkipped(cache, files, page) ==
    /\ page.id \in DOMAIN cache
    /\ cache[page.id].lastEditedTime = page.lastEditedTime
    /\ cache[page.id].slug = page.slug
    /\ page.slug \in DOMAIN files

SyncState(files, newCache, calls) ==
    [files |-> files, newCache |-> newCache, calls |-> calls]

\* one iteration of the loop over the pages
SyncPage(st, cache, page) ==
    IF IsSkipped(cache, st.files, page)
    THEN SyncState(st.files,
                   MapSet(st.newCache, page.id, cache[page.id]),
                   Append(st.calls, [id |-> page.id, slug |-> page.slug,
                                     fetched |-> FALSE]))
    ELSE SyncState(MapSet(st.files, page.slug,
                          [id |-> page.id, lastEditedTime |-> page.lastEditedTime]),
                   MapSet(st.newCache, page.id,
                          [lastEditedTime |-> page.lastEditedTime, slug |-> page.slug]),
                   Append(st.calls, [id |-> page.id, slug |-> page.slug,
                                     fetched |-> TRUE]))

\* the loop over the pages
RECURSIVE SyncPages(_, _, _)
SyncPages(st, cache, pages) ==
    IF pages = <<>> THEN st
    ELSE SyncPages(SyncPage(st, cache, Head(pages)), cache, Tail(pages))

\* a run of syncNotionPosts that reaches saveCache
SyncNotionPosts ==
    LET cache == loadNotionCache(notionCache)
        done == SyncPages(SyncState(mdFiles, EmptyMap, <<>>), cache,
                          QueryPages(notionPages))
    IN  /\ mdFiles' = done.files
        /\ notionCache' = [state |-> "ok", entries |-> done.newCache]
        /\ lastRun' = Ran("sync", "completed", done.calls)
        /\ UNCHANGED <<posts, embFile, graphFile, linksFile, notionPages>>

\* a run in which the query (k = 0) or getBlockChildren for the k-th page
\* rejects: syncNotionPosts().catch logs and exits before saveCache
SyncFails(k) ==
    LET cache == loadNotionCache(notionCache)
        pages == QueryPages(notionPages)
        done == SyncPages(SyncState(mdFiles, EmptyMap, <<>>), cache,
                          SubSeq(pages, 1, k - 1))
    IN  /\ k <= Len(pages)
        /\ k > 0 => ~ IsSkipped(cache, done.files, pages[k])
        /\ mdFiles' = done.files
        /\ lastRun' = Ran("sync", "threw", done.calls)
        /\ UNCHANGED <<posts, embFile, graphFile, linksFile, notionPages, notionCache>>

\* the latest edit time of the database
RECURSIVE LastEdit(_)
LastEdit(database) ==
    IF database = <<>> THEN 1
    ELSE LET rest == LastEdit(Tail(database))
         IN  IF Head(database).lastEditedTime > rest
             THEN Head(database).lastEditedTime ELSE rest

\* an author edits a page in Notion: the slug or the checkbox may change, and
\* last_edited_time moves on
EditPage(i) ==
    /\ i \in 1..Len(notionPages)
    /\ LastEdit(notionPages) <= MaxEdits
    /\ \E slug \in SyncSlugs : \E published \in BOOLEAN :
          notionPages' = [notionPages EXCEPT ![i] =
                             [id |-> @.id, lastEditedTime |-> LastEdit(notionPages) + 1,
                              slug |-> slug, published |-> published]]
    /\ lastRun' = Ran("edit", "none", <<>>)
    /\ UNCHANGED <<posts, embFile, graphFile, linksFile, notionCache, mdFiles>>

\* a file written by the sync is removed from the working tree
RemoveFile(slug) ==
    /\ slug \in DOMAIN mdFiles
    /\ mdFiles' = [x \in (DOMAIN mdFiles) \ {slug} |-> mdFiles[x]]
    /\ lastRun' = Ran("edit", "none", <<>>)
    /\ UNCHANGED <<posts, embFile, graphFile, linksFile, notionPages, notionCache>>

\* a database of published pages that were never synced; the cache file is
\* missing or was damaged
InitSync ==
    /\ posts = <<>>
    /\ embFile = NoFile
    /\ graphFile = NoOutput
    /\ linksFile = NoOutput
    /\ lastRun = NoRun
    /\ \E n \in 0..MaxPages :
         \E slugs \in [1..n -> SyncSlugs] :
            notionPages = [i \in 1..n |->
                              [id |-> i, lastEditedTime |-> 1, slug |-> slugs[i],
                               published |-> TRUE]]
    /\ notionCache \in {[state |-> "absent", entries |-> EmptyMap],
                         [state |-> "corrupt", entries |-> EmptyMap]}
    /\ mdFiles = EmptyMap

NextSync ==
    \/ SyncNotionPosts
    \/ \E k \in 0..MaxPages : SyncFails(k)
    \/ \E i \in 1..MaxPages : EditPage(i)
    \/ \E slug \in SyncSlugs : RemoveFile(slug)

SpecSync == InitSync /\ [][NextSync]_vars

----------------------------------------------------------------------------
(* generate-embeddings *)

\* loadCache and the cachedEmbeddings Map: the record kept for a slug is the
\* last one of the file with that slug
CachedRecord(cache, slug) ==
    cache.posts[CHOOSE i \in 1..Len(cache.posts) :
                    /\ cache.posts[i].slug = slug
                    /\ \A j \in (i + 1)..Len(cache.posts) : cache.posts[j].slug # slug]

CachedSlugs(cache) ==
    IF cache.state = "ok" THEN {cache.posts[i].slug : i \in 1..Len(cache.posts)}
    ELSE {}

RECURSIVE JoinWithSpace(_)
JoinWithSpace(tags) ==
    IF tags = <<>> THEN <<>>
    ELSE IF Len(tags) = 1 THEN Head(tags)
    ELSE Head(tags) \o <<" ">> \o JoinWithSpace(Tail(tags))

\* title | tags | excerpt (the excerpt only when there is one)
prepareTextForEmbedding(post) ==
    post.title \o <<" ", "|", " ">> \o JoinWithSpace(post.tags)
    \o (IF post.excerpt # <<>> THEN <<" ", "|", " ">> \o post.excerpt ELSE <<>>)

\* the embedding capability, when it answers: a vector fixed by the text
generateEmbedding(text) == IF Head(text) = "T" THEN <<1, 0>> ELSE <<2, 1>>

\* the iteration without the cache test: every post is embedded again
ProcessPostIgnoringCache(st, post, cache, results) ==
    IF post.slug \notin DOMAIN results \/ results[post.slug]
    THEN [newEmbeddings |-> Append(st.newEmbeddings,
                                   [slug |-> post.slug, title |-> post.title,
                                    tags |-> post.tags,
                                    embedding |->
                                        generateEmbedding(prepareTextForEmbedding(post))]),
          calls |-> Append(st.calls, [slug |-> post.slug, ok |-> TRUE, paused |-> TRUE])]
    ELSE [newEmbeddings |-> st.newEmbeddings,
          calls |-> Append(st.calls, [slug |-> post.slug, ok |-> FALSE, paused |-> FALSE])]

\* one iteration of "Process each post"; results[slug] tells whether the
\* embedding capability answers (TRUE) or fails (FALSE) for that post. paused
\* tells whether the 100 ms timer was awaited after the call: it is awaited
\* inside the try block, which a failed call leaves
ProcessPost(st, post, cache, results) ==
    IF post.slug \in CachedSlugs(cache)
    THEN [newEmbeddings |-> Append(st.newEmbeddings, CachedRecord(cache, post.slug)),
          calls |-> st.calls]
    ELSE IF results[post.slug]
    THEN [newEmbeddings |-> Append(st.newEmbeddings,
                                   [slug |-> post.slug, title |-> post.title,
                                    tags |-> post.tags,
                                    embedding |->
                                        generateEmbedding(prepareTextForEmbedding(post))]),
          calls |-> Append(st.calls, [slug |-> post.slug, ok |-> TRUE, paused |-> TRUE])]
    ELSE [newEmbeddings |-> st.newEmbeddings,
          calls |-> Append(st.calls, [slug |-> post.slug, ok |-> FALSE, paused |-> FALSE])]

\* the loop with no try/catch inside it: the first failure ends it
RECURSIVE ProcessPostsUntilFailure(_, _, _, _)
ProcessPostsUntilFailure(st, ps, cache, results) ==
    IF ps = <<>> THEN st
    ELSE IF Head(ps).slug \notin CachedSlugs(cache) /\ ~ results[Head(ps).slug]
    THEN ProcessPost(st, Head(ps), cache, results)
    ELSE ProcessPostsUntilFailure(ProcessPost(st, Head(ps), cache, results),
                                  Tail(ps), cache, results)

RECURSIVE ProcessPosts(_, _, _, _)
ProcessPosts(st, ps, cache, results) ==
    IF ps = <<>> THEN st
    ELSE ProcessPosts(ProcessPost(st, Head(ps), cache, results), Tail(ps), cache, results)

GenerateRun(dir, cache, results) ==
    ProcessPosts([newEmbeddings |-> <<>>, calls |-> <<>>], dir, cache, results)

\* main with the check of OPENAI_API_KEY moved behind the work: the posts are
\* embedded and the cache is written before the run exits with status 1
MainGenerateThenKeyCheck(key, dir, cache, results) ==
    [file |-> IF dir = <<>> THEN [state |-> "ok", posts |-> <<>>]
              ELSE [state |-> "ok",
                    posts |-> GenerateRun(dir, cache, results).newEmbeddings],
     run |-> Ran("generate", IF key THEN "completed" ELSE "exit1",
                 IF dir = <<>> THEN <<>> ELSE GenerateRun(dir, cache, results).calls)]

\* main: what the run leaves in the cache file and how it ends. key tells
\* whether OPENAI_API_KEY is set in the environment of the run; without it
\* main ends with process.exit(1) before readPosts
MainGenerate(key, dir, cache, results) ==
    IF ~ key THEN [file |-> cache, run |-> Ran("generate", "exit1", <<>>)]
    ELSE [file |-> IF dir = <<>> THEN [state |-> "ok", posts |-> <<>>]
                   ELSE [state |-> "ok",
                         posts |-> GenerateRun(dir, cache, results).newEmbeddings],
          run |-> Ran("generate", "completed",
                      IF dir = <<>> THEN <<>> ELSE GenerateRun(dir, cache, results).calls)]

\* a whole run of main, with the API key set
Generate(results) ==
    /\ embFile' = MainGenerate(TRUE, posts, embFile, results).file
    /\ lastRun' = MainGenerate(TRUE, posts, embFile, results).run
    /\ UNCHANGED <<posts, graphFile, linksFile, notionPages, notionCache, mdFiles>>

\* a whole run of main in an environment without OPENAI_API_KEY
GenerateWithoutKey(results) ==
    /\ embFile' = MainGenerate(FALSE, posts, embFile, results).file
    /\ lastRun' = MainGenerate(FALSE, posts, embFile, results).run
    /\ UNCHANGED <<posts, graphFile, linksFile, notionPages, notionCache, mdFiles>>

\* a run that is stopped during "Process each post", after k posts: nothing
\* was written yet
GenerateKilled(results, k) ==
    /\ k < Len(posts)
    /\ lastRun' = Ran("generate", "killed",
                      GenerateRun(SubSeq(posts, 1, k), embFile, results).calls)
    /\ UNCHANGED <<posts, embFile, graphFile, linksFile, notionPages, notionCache, mdFiles>>

\* a run that is stopped inside the final writeFileSync, which opens the
\* cache file for writing (emptying it) and then writes the text: the file
\* is left with a part of the text
GenerateKilledInWrite(results) ==
    /\ embFile' = CorruptFile
    /\ lastRun' = Ran("generate", "killed", GenerateRun(posts, embFile, results).calls)
    /\ UNCHANGED <<posts, graphFile, linksFile, notionPages, notionCache, mdFiles>>

----------------------------------------------------------------------------
(* The author edits the posts directory between runs *)

Edited == Ran("edit", "none", <<>>)

PresentSlugs == {posts[i].slug : i \in 1..Len(posts)}

AddPost(slug) ==
    /\ slug \notin PresentSlugs
    /\ posts' = Listing(PresentSlugs \cup {slug}, <<>>, 1)
    /\ lastRun' = Edited
    /\ UNCHANGED <<embFile, graphFile, linksFile, notionPages, notionCache, mdFiles>>

DeletePost(slug) ==
    /\ slug \in PresentSlugs
    /\ posts' = SelectSeq(posts, LAMBDA f : f.slug # slug)
    /\ lastRun' = Edited
    /\ UNCHANGED <<embFile, graphFile, linksFile, notionPages, notionCache, mdFiles>>

\* the title in the front matter is rewritten
RetitlePost(slug) ==
    /\ \E i \in 1..Len(posts) :
         /\ posts[i].slug = slug
         /\ posts[i].title = <<"T">> \o slug
         /\ posts' = [posts EXCEPT ![i].title = <<"U">> \o slug]
    /\ lastRun' = Edited
    /\ UNCHANGED <<embFile, graphFile, linksFile, notionPages, notionCache, mdFiles>>

InitGen ==
    /\ posts = <<>>
    /\ embFile = NoFile
    /\ graphFile = NoOutput
    /\ linksFile = NoOutput
    /\ lastRun = NoRun
    /\ NoNotion

\* the posts a run started now asks the embedding capability about
Uncached(dir) == {dir[i].slug : i \in 1..Len(dir)} \ CachedSlugs(embFile)

NextGen ==
    \/ \E results \in [Uncached(posts) -> BOOLEAN] : Generate(results)
    \/ \E results \in [Uncached(posts) -> BOOLEAN] : GenerateWithoutKey(results)
    \/ \E results \in [Uncached(posts) -> BOOLEAN] : GenerateKilledInWrite(results)
    \/ \E k \in 0..MaxPosts :
          \E results \in [Uncached(Take(posts, k)) -> BOOLEAN] : GenerateKilled(results, k)
    \/ BuildGraph
    \/ \E slug \in Universe : AddPost(slug)
    \/ \E slug \in Universe : DeletePost(slug)
    \/ \E slug \in Universe : RetitlePost(slug)

SpecGen == InitGen /\ [][NextGen]_vars

----------------------------------------------------------------------------
(* Claims about links-data.json (SpecLinks) *)

LinksBuilt == linksFile.state = "ok"

EdgePair(e) == {e.source, e.target}

\* C1: the edge list of links-data.json never holds two entries that connect
\* the same unordered pair {source, target}, whatever their types and directions.
C1_NoTwoEdgesForOnePair ==
    LinksBuilt =>
        \A i \in 1..Len(linksFile.edges) : \A j \in 1..Len(linksFile.edges) :
            i < j => EdgePair(linksFile.edges[i]) # EdgePair(linksFile.edges[j])

\* C2: when an explicit edge connects A and B, in either direction, no edge
\* of type 'ai' connects A and B.
C2_ExplicitSuppressesAI ==
    LinksBuilt =>
        \A i \in 1..Len(linksFile.edges) : \A j \in 1..Len(linksFile.edges) :
            (linksFile.edges[i].type = "explicit" /\ linksFile.edges[j].type = "ai")
                => EdgePair(linksFile.edges[i]) # EdgePair(linksFile.edges[j])

\* an explicit edge source -> target whose target was offered the source as
\* an AI suggestion (their similarity is at least the threshold)
C2_Witness ==
    /\ LinksBuilt
    /\ \E i \in 1..Len(linksFile.edges) :
         LET e == linksFile.edges[i]
         IN  /\ e.type = "explicit"
             /\ e.source # e.target
             /\ \E k \in 1..Len(linksFile.backlinks[e.target].aiSuggested) :
                    linksFile.backlinks[e.target].aiSuggested[k].slug = e.source

\* C4: every node's connections value is the number of entries of the edge
\* list whose source or target is the node's id.
C4_ConnectionsCountEdges ==
    LinksBuilt =>
        \A n \in 1..Len(linksFile.nodes) :
            linksFile.nodes[n].connections =
                Cardinality({i \in 1..Len(linksFile.edges) :
                                \/ linksFile.edges[i].source = linksFile.nodes[n].id
                                \/ linksFile.edges[i].target = linksFile.nodes[n].id})

\* the wiki-links of the directory that name no current post: (post, target)
DanglingLinks ==
    {pt \in PresentSlugs \X {NormalizeTarget(t) : t \in LinkTexts} :
        /\ pt[2] \notin PresentSlugs
        /\ \E i \in 1..Len(posts) :
              /\ posts[i].slug = pt[1]
              /\ \E k \in 1..Len(posts[i].content) :
                     NormalizeTarget(posts[i].content[k]) = pt[2]}

\* C5: a wiki-link whose normalized target is the slug of no current post
\* gives no edge from the linking post to that target and no explicit edge to
\* it, the target has no backlinks entry, and every entry of an explicit
\* backlinks list stands for a link to the post that owns the list.
C5_DanglingLinkLeavesNoTrace ==
    LinksBuilt =>
        /\ \A pt \in DanglingLinks :
             /\ \A i \in 1..Len(linksFile.edges) :
                  /\ ~ (linksFile.edges[i].source = pt[1] /\ linksFile.edges[i].target = pt[2])
                  /\ ~ (linksFile.edges[i].type = "explicit" /\ linksFile.edges[i].target = pt[2])
             /\ pt[2] \notin DOMAIN linksFile.backlinks
        /\ \A t \in DOMAIN linksFile.backlinks :
             /\ t \in PresentSlugs
             /\ \A k \in 1..Len(linksFile.backlinks[t].explicit) :
                  \E i \in 1..Len(posts) :
                      /\ posts[i].slug = linksFile.backlinks[t].explicit[k].slug
                      /\ \E r \in 1..Len(posts[i].content) :
                             NormalizeTarget(posts[i].content[r]) = t

\* a post holds a resolving link and a dangling one, and the data was built
C5_Witness ==
    /\ LinksBuilt
    /\ \E pt \in DanglingLinks :
         \E i \in 1..Len(linksFile.edges) :
            linksFile.edges[i].source = pt[1] /\ linksFile.edges[i].type = "explicit"

\* C6: the node list is the list of the posts read: one node per post, with
\* id = slug, in read order, and no node for a slug found only in the cache.
C6_NodesAreThePosts ==
    LinksBuilt =>
        /\ Len(linksFile.nodes) = Len(posts)
        /\ \A i \in 1..Len(posts) : linksFile.nodes[i].id = posts[i].slug
        /\ \A i \in 1..Len(linksFile.nodes) : \A j \in 1..Len(linksFile.nodes) :
             i # j => linksFile.nodes[i].id # linksFile.nodes[j].id
        /\ \A s \in CachedSlugs(embFile) \ PresentSlugs :
             \A i \in 1..Len(linksFile.nodes) : linksFile.nodes[i].id # s

\* the data was built for a post with no link and no embedding, while the
\* cache still holds the record of a deleted post
C6_Witness ==
    /\ LinksBuilt
    /\ \E i \in 1..Len(posts) :
         /\ posts[i].content = <<>>
         /\ posts[i].slug \notin CachedSlugs(embFile)
         /\ linksFile.nodes[i].connections = 0
    /\ CachedSlugs(embFile) \ PresentSlugs # {}

----------------------------------------------------------------------------
(* Claims about graph-data.json (SpecGraph) *)

GraphBuilt == graphFile.state = "ok"

EdgesAt(edges, id) ==
    {i \in 1..Len(edges) : edges[i].source = id \/ edges[i].target = id}

\* C3: after the greedy assignment no node of graph-data.json is an endpoint
\* of more than MAX_EDGES_PER_NODE edges.
C3_DegreeAtMostCap ==
    GraphBuilt =>
        \A n \in 1..Len(graphFile.nodes) :
            Cardinality(EdgesAt(graphFile.edges, graphFile.nodes[n].id))
                <= MAX_EDGES_PER_NODE

\* a graph in which a node reached the cap and a qualifying pair was dropped
C3_Witness ==
    /\ GraphBuilt
    /\ embFile.state = "ok"
    /\ \E n \in 1..Len(graphFile.nodes) :
         Cardinality(EdgesAt(graphFile.edges, graphFile.nodes[n].id))
             = MAX_EDGES_PER_NODE
    /\ Len(graphFile.edges) < Len(SimilaritiesFrom(embFile.posts, 1))

----------------------------------------------------------------------------
(* Claims about generate-embeddings and the cache (SpecGen) *)

\* this step is a completed run of generate-embeddings
GenerateCompletes ==
    /\ lastRun'.script = "generate"
    /\ lastRun'.outcome = "completed"
    /\ posts' = posts

\* this step is a run of generate-embeddings, completed or stopped
GenerateRuns ==
    /\ lastRun'.script = "generate"
    /\ posts' = posts

CallsFor(calls, slug) == {k \in 1..Len(calls) : calls[k].slug = slug}

\* C7: a post that has no embedding after a generate run is still a node,
\* with connections = 0, of the graph-data.json built from that run's cache.
C7_UnembeddedPostIsGraphNode ==
    [][(BuildGraph /\ lastRun.script = "generate" /\ lastRun.outcome = "completed")
          => \A i \in 1..Len(posts) :
                posts[i].slug \notin CachedSlugs(embFile)
                    => \E n \in 1..Len(graphFile'.nodes) :
                          /\ graphFile'.nodes[n].id = posts[i].slug
                          /\ graphFile'.nodes[n].connections = 0]_vars

C9_CacheOnlyGrows ==
    [][embFile.state = "ok" =>
          /\ embFile'.state = "ok"
          /\ \A i \in 1..Len(embFile.posts) :
                \E j \in 1..Len(embFile'.posts) : embFile'.posts[j] = embFile.posts[i]]_vars

\* C10: a failed embedding call does not end the run: every uncached post is
\* asked for, and the cache is written with exactly the records of the cached
\* posts and of the posts whose call succeeded, none for a post whose call
\* failed.
C10_FailedCallIsSkipped ==
    [][GenerateCompletes =>
          LET calls == lastRun'.calls
              succeeded == {calls[k].slug : k \in {m \in 1..Len(calls) : calls[m].ok}}
              failed == {calls[k].slug : k \in {m \in 1..Len(calls) : ~ calls[m].ok}}
          IN  /\ embFile'.state = "ok"
              /\ succeeded \cup failed = PresentSlugs \ CachedSlugs(embFile)
              /\ CachedSlugs(embFile')
                   = (PresentSlugs \cap CachedSlugs(embFile)) \cup succeeded
              /\ failed \cap CachedSlugs(embFile') = {}]_vars

\* a completed run in which a call failed, a later call succeeded and its
\* record was written, next to a record that was already cached
C10_Witness ==
    /\ lastRun.script = "generate"
    /\ lastRun.outcome = "completed"
    /\ \E k \in 1..Len(lastRun.calls) : \E m \in 1..Len(lastRun.calls) :
         /\ k < m
         /\ ~ lastRun.calls[k].ok
         /\ lastRun.calls[m].ok
         /\ lastRun.calls[k].slug \notin CachedSlugs(embFile)
         /\ lastRun.calls[m].slug \in CachedSlugs(embFile)

\* C11: a generate-embeddings run without the API credential ends with a
\* non-zero exit status before any work: the embedding capability is never
\* called and the cache file is left exactly as it was.
C11_NoKeyNoWork ==
    [][(lastRun'.script = "generate" /\ lastRun'.outcome = "exit1") =>
          /\ lastRun'.calls = <<>>
          /\ embFile' = embFile
          /\ posts' = posts]_vars

\* a run without the key, ended with status 1, in a directory that holds a
\* post the cache has no record of, next to a written cache
C11_Witness ==
    /\ lastRun.script = "generate"
    /\ lastRun.outcome = "exit1"
    /\ embFile.state = "ok"
    /\ PresentSlugs \ CachedSlugs(embFile) # {}

\* C12: an embeddings file that does not parse is treated as an empty cache
\* and ends no run: generate-embeddings asks for every post, and build-graph
\* completes and writes the graph it writes when there are no embeddings.
C12_CorruptCacheIsEmptyCache ==
    [][(embFile.state = "corrupt" /\ posts' = posts) =>
          /\ (lastRun'.script = "generate" /\ lastRun'.outcome = "completed") =>
                 {lastRun'.calls[k].slug : k \in 1..Len(lastRun'.calls)} = PresentSlugs
          /\ lastRun'.script = "graph" =>
                 (lastRun'.outcome = "completed" /\ graphFile' = EmptyGraph)]_vars

\* C13: every write of the cache file is all-or-nothing: after a step the
\* file holds what it held before or a complete document, never a part of one.
C13_CacheWriteIsAtomic ==
    [][embFile' = embFile \/ embFile'.state = "ok"]_vars

\* C14: when two embeddings of the cache have unequal lengths, build-graph
\* fails that pair only: the run completes, graph-data.json is written, and
\* every pair of equal-length embeddings whose similarity reaches the
\* threshold has its edge (the caches here are too small for the cap to act).
C14_MismatchFailsOnlyThePair ==
    lastRun.script = "graph" =>
        /\ lastRun.outcome = "completed"
        /\ GraphBuilt
        /\ \A i \in 1..Len(embFile.posts) : \A j \in 1..Len(embFile.posts) :
              (/\ i < j
               /\ Len(embFile.posts) <= MAX_EDGES_PER_NODE
               /\ Len(embFile.posts[i].embedding) = Len(embFile.posts[j].embedding)
               /\ AtLeastThreshold(cosineSimilarityLenient(embFile.posts[i].embedding,
                                                           embFile.posts[j].embedding)))
                  => \E k \in 1..Len(graphFile.edges) :
                        /\ graphFile.edges[k].source = embFile.posts[i].slug
                        /\ graphFile.edges[k].target = embFile.posts[j].slug

----------------------------------------------------------------------------
(* Claims about the AI suggestions of links-data.json (SpecLinksWide) *)

HasRecord(slug) == slug \in CachedSlugs(embFile)

EmbeddingOf(slug) ==
    embFile.posts[CHOOSE i \in 1..Len(embFile.posts) :
                      /\ embFile.posts[i].slug = slug
                      /\ \A j \in 1..(i - 1) : embFile.posts[j].slug # slug].embedding

SimilarityOf(a, b) == cosineSimilarityLenient(EmbeddingOf(a), EmbeddingOf(b))

Suggested(slug) == linksFile.backlinks[slug].aiSuggested

SuggestedSlugs(slug) == {Suggested(slug)[k].slug : k \in 1..Len(Suggested(slug))}

ExplicitLinksOf(slug) ==
    LET ps == readPosts(posts)
    IN  ps[CHOOSE i \in 1..Len(ps) : ps[i].slug = slug].explicitLinks

AIEdgesBetween(a, b) ==
    {k \in 1..Len(linksFile.edges) :
        linksFile.edges[k].type = "ai" /\ EdgePair(linksFile.edges[k]) = {a, b}}

\* two posts whose cached embeddings have unequal lengths
UnequalLengths(a, b) ==
    /\ a # b
    /\ HasRecord(a) /\ HasRecord(b)
    /\ Len(EmbeddingOf(a)) # Len(EmbeddingOf(b))

\* C15: in the links builder two embeddings of unequal lengths have
\* similarity 0: the run completes and writes the file, neither post is an AI
\* suggestion of the other and no 'ai' edge joins them in either direction;
\* the suggestions among posts with embeddings of equal lengths are still made.
C15_MismatchIsNoSuggestion ==
    lastRun.script = "links" =>
        /\ lastRun.outcome = "completed"
        /\ LinksBuilt
        /\ \A a \in PresentSlugs : \A b \in PresentSlugs :
              /\ UnequalLengths(a, b) =>
                    (b \notin SuggestedSlugs(a) /\ AIEdgesBetween(a, b) = {})
              /\ (/\ a # b /\ HasRecord(a) /\ HasRecord(b)
                  /\ Len(embFile.posts) <= MAX_AI_SUGGESTIONS
                  /\ Len(EmbeddingOf(a)) = Len(EmbeddingOf(b))
                  /\ AtLeastThreshold(SimilarityOf(a, b))
                  /\ ~ Includes(ExplicitLinksOf(a), b))
                    => b \in SuggestedSlugs(a)

\* a built file for two posts with embeddings of unequal lengths, next to an
\* 'ai' edge between two other embeddings
C15_Witness ==
    /\ LinksBuilt
    /\ \E a \in PresentSlugs : \E b \in PresentSlugs : UnequalLengths(a, b)
    /\ \E k \in 1..Len(linksFile.edges) : linksFile.edges[k].type = "ai"

\* posts A (read first) and B with embeddings of similarity >= 0.65 and no
\* explicit link between them
SimilarUnlinked(i, j) ==
    /\ i < j
    /\ HasRecord(posts[i].slug) /\ HasRecord(posts[j].slug)
    /\ AtLeastThreshold(SimilarityOf(posts[i].slug, posts[j].slug))
    /\ ~ Includes(ExplicitLinksOf(posts[i].slug), posts[j].slug)
    /\ ~ Includes(ExplicitLinksOf(posts[j].slug), posts[i].slug)

\* C16: for posts A and B with embeddings, similarity s >= 0.65, no explicit
\* link between them and fewer than 5 candidates each, exactly one edge joins
\* the pair, it has type 'ai' and weight round2(s), and each is an AI
\* suggestion of the other with score round2(s).
C16_SimilarPairIsOneAIEdge ==
    LinksBuilt =>
        \A i \in 1..Len(posts) : \A j \in 1..Len(posts) :
            (SimilarUnlinked(i, j) /\ Len(embFile.posts) <= MAX_AI_SUGGESTIONS) =>
                LET A == posts[i].slug
                    B == posts[j].slug
                    s == Round100(SimilarityOf(A, B))
                    joining == {k \in 1..Len(linksFile.edges) :
                                   EdgePair(linksFile.edges[k]) = {A, B}}
                IN  /\ Cardinality(joining) = 1
                    /\ \A k \in joining :
                          linksFile.edges[k].type = "ai" /\ linksFile.edges[k].weight = s
                    /\ \E k \in 1..Len(Suggested(A)) :
                          Suggested(A)[k].slug = B /\ Suggested(A)[k].score = s
                    /\ \E k \in 1..Len(Suggested(B)) :
                          Suggested(B)[k].slug = A /\ Suggested(B)[k].score = s

\* a built file for such a pair whose similarity is not 1, while one of the
\* two posts references a third post
C16_Witness ==
    /\ LinksBuilt
    /\ \E i \in 1..Len(posts) : \E j \in 1..Len(posts) :
         /\ SimilarUnlinked(i, j)
         /\ Round100(SimilarityOf(posts[i].slug, posts[j].slug)) < 100
         /\ ExplicitLinksOf(posts[i].slug) # <<>>

\* the cache records that can be suggested for a post
CandidatesOf(D) ==
    {c \in CachedSlugs(embFile) \ {D} :
        /\ AtLeastThreshold(SimilarityOf(D, c))
        /\ ~ Includes(ExplicitLinksOf(D), c)}

\* C17: the aiSuggested list of a post D with an embedding is the top 5 by
\* similarity, in descending order of similarity, of the candidates (other
\* records with similarity >= 0.65 whose slug D does not reference): no
\* candidate left out has a strictly higher similarity than one in the list;
\* the list of a post with no embedding is empty.
C17_SuggestionsAreTopBySimilarity ==
    LinksBuilt =>
        \A D \in PresentSlugs :
            IF ~ HasRecord(D) THEN Suggested(D) = <<>>
            ELSE /\ SuggestedSlugs(D) \subseteq CandidatesOf(D)
                 /\ Len(Suggested(D)) = Cardinality(SuggestedSlugs(D))
                 /\ Len(Suggested(D)) =
                       (IF Cardinality(CandidatesOf(D)) < MAX_AI_SUGGESTIONS
                        THEN Cardinality(CandidatesOf(D)) ELSE MAX_AI_SUGGESTIONS)
                 /\ \A k \in 1..Len(Suggested(D)) : \A m \in 1..Len(Suggested(D)) :
                       k < m => ~ SimGreater(SimilarityOf(D, Suggested(D)[m].slug),
                                             SimilarityOf(D, Suggested(D)[k].slug))
                 /\ \A out \in CandidatesOf(D) \ SuggestedSlugs(D) :
                       \A in \in SuggestedSlugs(D) :
                           ~ SimGreater(SimilarityOf(D, out), SimilarityOf(D, in))

----------------------------------------------------------------------------
(* The reference procedure for the edges of graph-data.json (SpecGraph) *)

\* the pairs i < j of cache records whose similarity reaches the threshold
QualifyingPairs ==
    LET all == {[i |-> p[1], j |-> p[2],
                 similarity |-> cosineSimilarityLenient(embFile.posts[p[1]].embedding,
                                                        embFile.posts[p[2]].embedding)] :
                    p \in {q \in (1..Len(embFile.posts)) \X (1..Len(embFile.posts)) :
                              q[1] < q[2]}}
    IN  {p \in all : AtLeastThreshold(p.similarity)}

\* p comes before q: higher similarity, or equal similarity and earlier in
\* the (i, j) enumeration
ComesBefore(p, q) ==
    \/ SimGreater(p.similarity, q.similarity)
    \/ /\ ~ SimGreater(q.similarity, p.similarity)
       /\ (p.i < q.i \/ (p.i = q.i /\ p.j < q.j))

RECURSIVE ReferenceOrder(_)
FirstThenRest(first, pairs) == <<first>> \o ReferenceOrder(pairs \ {first})

ReferenceOrder(pairs) ==
    IF pairs = {} THEN <<>>
    ELSE FirstThenRest(CHOOSE p \in pairs : \A q \in pairs \ {p} : ComesBefore(p, q),
                       pairs)

\* the scan of the ordered pairs from position k on, with the pairs accepted
\* so far
RECURSIVE ReferenceScan(_, _, _)
ReferenceScan(order, k, accepted) ==
    IF k > Len(order) THEN accepted
    ELSE LET degree(x) == Cardinality({m \in 1..Len(accepted) :
                                         x = accepted[m].i \/ x = accepted[m].j})
         IN  ReferenceScan(order, k + 1,
                           IF /\ degree(order[k].i) < MAX_EDGES_PER_NODE
                              /\ degree(order[k].j) < MAX_EDGES_PER_NODE
                           THEN Append(accepted, order[k]) ELSE accepted)

ReferenceAccepted(order) == ReferenceScan(order, 1, <<>>)

EdgesOf(accepted) ==
    [k \in 1..Len(accepted) |->
        [source |-> embFile.posts[accepted[k].i].slug,
         target |-> embFile.posts[accepted[k].j].slug,
         weight |-> Round100(accepted[k].similarity)]]

ReferenceEdges == EdgesOf(ReferenceAccepted(ReferenceOrder(QualifyingPairs)))

\* C18: the edge list of graph-data.json is the one of the reference
\* procedure: the pairs i < j with similarity >= 0.65, in descending order of
\* similarity with ties in enumeration order, each accepted when both
\* endpoints have fewer than 5 accepted edges; source is the lower-index
\* record, target the higher-index one, weight the similarity rounded to two
\* decimals.
C18_EdgesAreTheReferenceEdges ==
    (lastRun.script = "graph" /\ lastRun.outcome = "completed") =>
        (GraphBuilt /\ graphFile.edges = ReferenceEdges)

\* a built graph in which, among pairs of equal similarity, the cap refused
\* one and accepted others
C18_Witness ==
    /\ lastRun.script = "graph"
    /\ GraphBuilt
    /\ Len(graphFile.edges) < Cardinality(QualifyingPairs)
    /\ \E k \in 1..Len(graphFile.edges) : \E m \in 1..Len(graphFile.edges) :
          /\ k < m
          /\ graphFile.edges[k].weight = graphFile.edges[m].weight
          /\ \E p \in QualifyingPairs :
                /\ Round100(p.similarity) = graphFile.edges[k].weight
                /\ \A n \in 1..Len(graphFile.edges) :
                      ~ (/\ graphFile.edges[n].source = embFile.posts[p.i].slug
                         /\ graphFile.edges[n].target = embFile.posts[p.j].slug)

----------------------------------------------------------------------------
(* Claims about node groups (SpecTags) *)

\* the primary-tag key of a node: its first tag, or the sentinel of the
\* untagged
GroupKey(node) == IF node.tags = <<>> THEN <<"uncategorized">> ELSE node.tags[1]

\* the groups of a node list map the keys to 0, 1, 2, ... in first-seen order
GroupsFollowKeys(nodes) ==
    \A n \in 1..Len(nodes) :
        /\ \A k \in 1..Len(nodes) :
              (nodes[k].group = nodes[n].group) <=> (GroupKey(nodes[k]) = GroupKey(nodes[n]))
        /\ LET first == CHOOSE k \in 1..n :
                            /\ GroupKey(nodes[k]) = GroupKey(nodes[n])
                            /\ \A m \in 1..(k - 1) : GroupKey(nodes[m]) # GroupKey(nodes[n])
           IN  nodes[n].group = Cardinality({GroupKey(nodes[m]) : m \in 1..(first - 1)})

\* C19: in both outputs the node groups map the primary-tag key (first tag,
\* or the 'uncategorized' sentinel of an untagged post) to 0, 1, 2, ... in
\* first-seen order: two nodes have the same group exactly when they have the
\* same key, so an untagged node shares no group with a tagged one.
C19_GroupsFollowPrimaryKey ==
    /\ LinksBuilt => GroupsFollowKeys(linksFile.nodes)
    /\ GraphBuilt => GroupsFollowKeys(graphFile.nodes)

----------------------------------------------------------------------------
(* Claims about parseWikiLinks (SpecParse) *)

Body == posts[1].body

\* a reference is written from index o.start to index o.close + 1: [[ at
\* start, ]] at close, and between them a target, or a target, a bar and a
\* label; neither holds a ], the target holds no bar, neither is empty
IsReference(text, o) ==
    LET bars == {b \in (o.start + 2)..(o.close - 1) : text[b] = "|"}
    IN  /\ StartsWith(text, o.start, "[")
        /\ StartsWith(text, o.close, "]")
        /\ o.start + 2 < o.close
        /\ \A k \in (o.start + 2)..(o.close - 1) : text[k] # "]"
        /\ \A b \in bars : o.start + 2 < b /\ (b < o.close - 1 \/ \E c \in bars : c < b)

References(text) ==
    {o \in [start : 1..Len(text), close : 1..Len(text)] : IsReference(text, o)}

\* the index after the target of a reference: its first bar, or its close
TargetEnd(text, o) ==
    CHOOSE e \in (o.start + 2)..o.close :
        /\ e = o.close \/ text[e] = "|"
        /\ \A k \in (o.start + 2)..(e - 1) : text[k] # "|"

TargetOf(text, o) == SubSeq(text, o.start + 2, TargetEnd(text, o) - 1)

\* the references met when the text is read from index from on, each one
\* read to its end before the next is looked for
RECURSIVE ReferencesInOrder(_, _, _)
ReferencesInOrder(text, refs, from) ==
    IF \A o \in refs : o.start < from THEN <<>>
    ELSE LET next == CHOOSE o \in refs :
                         o.start >= from /\ \A q \in refs : q.start >= from => o.start <= q.start
         IN  <<next>> \o ReferencesInOrder(text, refs, next.close + 2)

\* the words of a text: its maximal runs of characters other than white space
RECURSIVE WordsOf(_)
WordsOf(t) ==
    IF t = <<>> THEN <<>>
    ELSE IF IsSpace(Head(t)) THEN WordsOf(Tail(t))
    ELSE LET e == RunEnd(t, 1, {" "})
         IN  <<SubSeq(t, 1, e - 1)>> \o WordsOf(SubSeq(t, e, Len(t)))

RECURSIVE JoinWithHyphen(_)
JoinWithHyphen(words) ==
    IF words = <<>> THEN <<>>
    ELSE IF Len(words) = 1 THEN Head(words)
    ELSE Head(words) \o <<"-">> \o JoinWithHyphen(Tail(words))

\* trimmed, lower-cased, every run of white space replaced by one hyphen
Normalized(t) == JoinWithHyphen(WordsOf([i \in 1..Len(t) |-> ToLowerChar(t[i])]))

NormalizedTargets(text) ==
    LET refs == ReferencesInOrder(text, References(text), 1)
    IN  [k \in 1..Len(refs) |-> Normalized(TargetOf(text, refs[k]))]

FirstIndex(seq, x) == CHOOSE k \in 1..Len(seq) : seq[k] = x /\ \A m \in 1..(k - 1) : seq[m] # x

\* links holds the elements of targets, each once, in the order of their
\* first occurrences
IsFirstOccurrences(links, targets) ==
    /\ {links[k] : k \in 1..Len(links)} = {targets[k] : k \in 1..Len(targets)}
    /\ \A x \in 1..Len(links) : \A y \in 1..Len(links) :
          x < y => FirstIndex(targets, links[x]) < FirstIndex(targets, links[y])

\* the text with the bar and label of every reference taken out
WithoutLabels(text) ==
    LET refs == ReferencesInOrder(text, References(text), 1)
        inLabel == {k \in 1..Len(text) :
                       \E r \in 1..Len(refs) :
                           TargetEnd(text, refs[r]) <= k /\ k < refs[r].close}
        keep(k) == Cardinality({m \in 1..k : m \notin inLabel})
    IN  [n \in 1..Cardinality((1..Len(text)) \ inLabel) |->
            text[CHOOSE k \in (1..Len(text)) \ inLabel : keep(k) = n]]

\* C20: parseWikiLinks returns the targets of all the [[target]] and
\* [[target|label]] references of the body, each trimmed, lower-cased and
\* with every run of white space replaced by one hyphen, without duplicates,
\* in the order of first occurrence; the labels do not affect the result.
C20_ParseWikiLinks ==
    lastRun.script = "readPosts" =>
        /\ IsFirstOccurrences(lastRun.links, NormalizedTargets(Body))
        /\ lastRun.links = parseWikiLinks(WikiLinkCaptures(WithoutLabels(Body)))

\* a body with one reference that has a label, whose target is not written
\* as the link that is returned
C20_Witness ==
    /\ lastRun.script = "readPosts"
    /\ LET refs == ReferencesInOrder(Body, References(Body), 1)
       IN  /\ Len(refs) = 1
           /\ TargetEnd(Body, refs[1]) < refs[1].close
           /\ lastRun.links # <<TargetOf(Body, refs[1])>>

----------------------------------------------------------------------------
(* Further claims about links-data.json *)

\* the posts whose explicit links name the slug, in read order
LinkingPosts(slug) ==
    SelectSeq(posts, LAMBDA f : Includes(parseWikiLinks(f.content), slug))

\* C21: for every post T, backlinks[T].explicit holds one {slug, title}
\* entry for each post whose explicit links name T, and nothing else, in the
\* read order of the linking posts.
C21_ExplicitBacklinksInReadOrder ==
    LinksBuilt =>
        \A T \in PresentSlugs :
            linksFile.backlinks[T].explicit =
                [k \in 1..Len(LinkingPosts(T)) |->
                    [slug |-> LinkingPosts(T)[k].slug, title |-> LinkingPosts(T)[k].title]]

\* a built file in which two posts link to the same post
C21_Witness ==
    /\ LinksBuilt
    /\ \E T \in PresentSlugs : Len(linksFile.backlinks[T].explicit) = 2

\* C22: within one generate-embeddings run the pause is awaited between any
\* two consecutive calls of the embedding capability, whether the earlier of
\* the two succeeded or failed.
C22_PauseBetweenCalls ==
    lastRun.script = "generate" =>
        \A k \in 1..(Len(lastRun.calls) - 1) : lastRun.calls[k].paused

\* the place of a post in the read order
ReadPosition(slug) == CHOOSE i \in 1..Len(posts) : posts[i].slug = slug

\* C23: the explicit pass over all posts is finished before any AI
\* suggestion is computed or deduplicated: in the edge list every 'explicit'
\* edge comes before every 'ai' edge, and no 'ai' edge joins a pair that an
\* explicit edge of the run joins.
C23_ExplicitPassComesFirst ==
    LinksBuilt =>
        \A i \in 1..Len(linksFile.edges) : \A j \in 1..Len(linksFile.edges) :
            (linksFile.edges[i].type = "ai" /\ linksFile.edges[j].type = "explicit") =>
                /\ j < i
                /\ EdgePair(linksFile.edges[i]) # EdgePair(linksFile.edges[j])

\* a built file with an 'ai' edge from a post that is read before the
\* source of an explicit edge, and that post is suggested the source
C23_Witness ==
    /\ LinksBuilt
    /\ \E i \in 1..Len(linksFile.edges) : \E j \in 1..Len(linksFile.edges) :
          /\ linksFile.edges[i].type = "ai"
          /\ linksFile.edges[j].type = "explicit"
          /\ ReadPosition(linksFile.edges[i].source) < ReadPosition(linksFile.edges[j].source)
          /\ linksFile.edges[j].target = linksFile.edges[i].source
          /\ linksFile.edges[j].source \in SuggestedSlugs(linksFile.edges[i].source)

----------------------------------------------------------------------------
(* Claims about vectors of norm 0 (SpecZero) *)

\* the slugs of the cache records whose embedding has norm 0
ZeroSlugs ==
    {embFile.posts[i].slug : i \in {k \in 1..Len(embFile.posts) :
                                       NormSq(embFile.posts[k].embedding) = 0}}

\* no similarity-based edge or suggestion of the written outputs touches a
\* record whose embedding has norm 0
ZeroNormIsUnconnected ==
    /\ LinksBuilt =>
          /\ \A k \in 1..Len(linksFile.edges) :
                linksFile.edges[k].type = "ai" => EdgePair(linksFile.edges[k]) \cap ZeroSlugs = {}
          /\ \A s \in PresentSlugs :
                /\ s \in ZeroSlugs => Suggested(s) = <<>>
                /\ SuggestedSlugs(s) \cap ZeroSlugs = {}
    /\ GraphBuilt =>
          \A k \in 1..Len(graphFile.edges) : EdgePair(graphFile.edges[k]) \cap ZeroSlugs = {}

ComparedZeroNorm ==
    /\ lastRun.script = "cosineSimilarity"
    /\ NormSq(lastRun.a) = 0 \/ NormSq(lastRun.b) = 0

\* C24 as stated: both cosineSimilarity functions return 0, and neither an
\* error nor NaN, whenever a vector has norm 0 (all zeros, or empty), and a
\* record with such an embedding gets no similarity-based edge or suggestion.
C24_ZeroNormGivesZero ==
    /\ ComparedZeroNorm =>
          /\ lastRun.lenient = SimZero
          /\ lastRun.outcome = "completed"
          /\ lastRun.strict = SimZero
    /\ ZeroNormIsUnconnected

\* C24, amended: the lenient function returns 0 whenever a vector has norm
\* 0; the strict function returns 0, and neither an error nor NaN, whenever a
\* vector has norm 0 and the two vectors have the same length; a record with
\* such an embedding gets no similarity-based edge or suggestion.
C24_ZeroNormGivesZeroForEqualLengths ==
    /\ ComparedZeroNorm =>
          /\ lastRun.lenient = SimZero
          /\ Len(lastRun.a) = Len(lastRun.b) =>
                (lastRun.outcome = "completed" /\ lastRun.strict = SimZero)
    /\ ZeroNormIsUnconnected

\* the functions were applied to a vector of zeros and a vector of the same
\* length that is not
C24_Witness ==
    /\ ComparedZeroNorm
    /\ Len(lastRun.a) = Len(lastRun.b)
    /\ NormSq(lastRun.a) # NormSq(lastRun.b)

----------------------------------------------------------------------------
(* Claims about the JSON text of the outputs (SpecTags) *)

\* the linksData and graphData objects that main serialises
LinksDataObject ==
    [nodes |-> linksFile.nodes, edges |-> linksFile.edges,
     backlinks |-> linksFile.backlinks, postMeta |-> linksFile.postMeta]

GraphDataObject == [nodes |-> graphFile.nodes, edges |-> graphFile.edges]

\* C25: serialising the links data or the graph data to JSON and parsing the
\* text gives a structure with the same fields and values, the postMeta
\* entries of posts without excerpt included.
C25_JsonRoundTrip ==
    /\ LinksBuilt => ParseLinksData(StringifyLinksData(LinksDataObject)) = LinksDataObject
    /\ GraphBuilt => ParseGraphData(StringifyGraphData(GraphDataObject)) = GraphDataObject

----------------------------------------------------------------------------
(* Claims about the closure of links-data.json (SpecLinksWide) *)

NodeIds == {linksFile.nodes[i].id : i \in 1..Len(linksFile.nodes)}

ListedSlugs(entries) == {entries[i].slug : i \in 1..Len(entries)}

\* C26: in the links output the source and the target of every edge and every
\* slug of an aiSuggested or explicit backlinks list is the id of a node,
\* whatever the documents and the records of the cache are.
C26_OutputIsClosed ==
    LinksBuilt =>
        /\ \A i \in 1..Len(linksFile.edges) :
               /\ linksFile.edges[i].source \in NodeIds
               /\ linksFile.edges[i].target \in NodeIds
        /\ \A k \in DOMAIN linksFile.backlinks :
               /\ ListedSlugs(linksFile.backlinks[k].explicit) \subseteq NodeIds
               /\ ListedSlugs(linksFile.backlinks[k].aiSuggested) \subseteq NodeIds

----------------------------------------------------------------------------
(* Claims about the maximality of graph-data.json (SpecGraph) *)

\* an edge of the graph joins the records i and j, in this order
JoinedInGraph(i, j) ==
    \E k \in 1..Len(graphFile.edges) :
        /\ graphFile.edges[k].source = embFile.posts[i].slug
        /\ graphFile.edges[k].target = embFile.posts[j].slug

DegreeInGraph(i) == Cardinality(EdgesAt(graphFile.edges, embFile.posts[i].slug))

\* C27: the edges of the standalone graph are maximal: every pair whose
\* similarity reaches the threshold and that is not an edge has an endpoint
\* with exactly MAX_EDGES_PER_NODE edges.
C27_GreedyIsMaximal ==
    (lastRun.script = "graph" /\ lastRun.outcome = "completed" /\ GraphBuilt) =>
        \A p \in QualifyingPairs :
            \/ JoinedInGraph(p.i, p.j)
            \/ DegreeInGraph(p.i) = MAX_EDGES_PER_NODE
            \/ DegreeInGraph(p.j) = MAX_EDGES_PER_NODE

\* a built graph in which a pair was refused for one endpoint only, and a
\* pair of lower rank between two other records was accepted
C27_Witness ==
    /\ lastRun.script = "graph"
    /\ lastRun.outcome = "completed"
    /\ GraphBuilt
    /\ \E p \in QualifyingPairs :
          /\ ~ JoinedInGraph(p.i, p.j)
          /\ DegreeInGraph(p.i) = MAX_EDGES_PER_NODE
          /\ DegreeInGraph(p.j) < MAX_EDGES_PER_NODE
          /\ \E q \in QualifyingPairs :
                /\ ComesBefore(p, q)
                /\ {q.i, q.j} \cap {p.i, p.j} = {}
                /\ JoinedInGraph(q.i, q.j)

\* the edges of the links output of type 'ai'
AIEdgeIndexes == {i \in 1..Len(linksFile.edges) : linksFile.edges[i].type = "ai"}

\* an edge of the links output joins s and t, in either direction
Connected(s, t) ==
    \E i \in 1..Len(linksFile.edges) :
        \/ linksFile.edges[i].source = s /\ linksFile.edges[i].target = t
        \/ linksFile.edges[i].source = t /\ linksFile.edges[i].target = s

\* C28: every 'ai' edge (s, t) has t in backlinks[s].aiSuggested with a score
\* equal to the weight of the edge, and for every entry t of
\* backlinks[s].aiSuggested an edge, explicit or ai, joins s and t in one
\* direction or the other.
C28_AIEdgesMatchSuggestions ==
    LinksBuilt =>
        /\ \A i \in AIEdgeIndexes :
              LET e == linksFile.edges[i]
              IN  /\ e.source \in DOMAIN linksFile.backlinks
                  /\ \E k \in 1..Len(linksFile.backlinks[e.source].aiSuggested) :
                        /\ linksFile.backlinks[e.source].aiSuggested[k].slug = e.target
                        /\ linksFile.backlinks[e.source].aiSuggested[k].score = e.weight
        /\ \A s \in DOMAIN linksFile.backlinks :
              \A t \in ListedSlugs(linksFile.backlinks[s].aiSuggested) : Connected(s, t)

\* links data with an 'ai' edge and with a suggestion that got no 'ai' edge
\* because an explicit edge of the other direction was there
C28_Witness ==
    /\ LinksBuilt
    /\ AIEdgeIndexes # {}
    /\ \E s \in DOMAIN linksFile.backlinks :
          \E t \in ListedSlugs(linksFile.backlinks[s].aiSuggested) :
             /\ Connected(s, t)
             /\ \A i \in AIEdgeIndexes :
                   {linksFile.edges[i].source, linksFile.edges[i].target} # {s, t}

----------------------------------------------------------------------------
(* Claims about references written with the slug of a post (SpecNames) *)

\* C29: for every post with slug s, the name of its file, a reference whose
\* target text is exactly s and that is written in another post resolves:
\* links-data.json has an explicit edge from that post to s and an entry
\* for that post in backlinks[s].explicit.
C29_ReferenceBySlugResolves ==
    LinksBuilt =>
        \A i \in 1..Len(posts) : \A j \in 1..Len(posts) :
            (i # j /\ Includes(posts[j].content, posts[i].slug)) =>
                /\ \E k \in 1..Len(linksFile.edges) :
                      /\ linksFile.edges[k].type = "explicit"
                      /\ linksFile.edges[k].source = posts[j].slug
                      /\ linksFile.edges[k].target = posts[i].slug
                /\ posts[i].slug \in DOMAIN linksFile.backlinks
                /\ posts[j].slug \in ListedSlugs(linksFile.backlinks[posts[i].slug].explicit)

----------------------------------------------------------------------------
(* Claims about the Notion sync (SpecSync) *)

\* the slugs of the files written in the run that this step is
WrittenInRun == {lastRun'.calls[k].slug : k \in {n \in 1..Len(lastRun'.calls) :
                                                   lastRun'.calls[n].fetched}}

FetchedInRun == {lastRun'.calls[k].id : k \in {n \in 1..Len(lastRun'.calls) :
                                                 lastRun'.calls[n].fetched}}

\* the cache of the previous run has an entry for the page with the same
\* last_edited_time and the same slug, and the file of the page exists
UnchangedSinceLastRun(page) ==
    IsSkipped(loadNotionCache(notionCache), mdFiles, page)

\* C30: in every sync run, the file of a published page is left untouched
\* exactly when the cache of the previous run has an entry for the page with
\* the same last_edited_time and slug and the file exists, and otherwise the
\* page is fetched and its file written; after a completed run the cache has
\* exactly one entry per page of the query; a run that fails leaves the
\* cache file as it was.
C30_SyncIsIncremental ==
    [][/\ (lastRun'.script = "sync" /\ lastRun'.outcome = "completed") =>
             LET pages == QueryPages(notionPages)
             IN  /\ \A k \in 1..Len(pages) :
                       IF UnchangedSinceLastRun(pages[k])
                       THEN /\ pages[k].slug \notin WrittenInRun
                            /\ mdFiles'[pages[k].slug] = mdFiles[pages[k].slug]
                       ELSE /\ pages[k].id \in FetchedInRun
                            /\ pages[k].slug \in WrittenInRun
                 /\ notionCache'.state = "ok"
                 /\ DOMAIN notionCache'.entries = {pages[k].id : k \in 1..Len(pages)}
       /\ (lastRun'.script = "sync" /\ lastRun'.outcome = "threw") =>
             notionCache' = notionCache]_vars

====
